---- MODULE Spec2Model ----
(***************************************************************************)
(* RTNeural json_parser (RTNeural/model_loader.h): shape resolution, the   *)
(* dense and LSTM weight loaders, the activation factory, the validators   *)
(* and the parseJson build loop.                                           *)
(*                                                                         *)
(* C++ indices are 0-based; sequences here are 1-based, so element k of a  *)
(* C++ container is element k+1 of the sequence that models it.            *)
(***************************************************************************)
EXTENDS Integers, Sequences, FiniteSets, TLC

(***************************************************************************)
(* Bounds                                                                  *)
(***************************************************************************)
\* largest in_size / out_size of a layer under load
MaxSize == 2
\* longest array tried as a shape
MaxShapeLen == 5
\* largest integer tried as an element of a shape
MaxShapeVal == 2
\* largest feature count used by the shapes of a build
MaxDim == 2
\* most entries of "layers" one build consumes
MaxLayers == 2

\* longest outer / inner array of a dense kernel in a weights block
MaxLen == MaxSize + 1

(***************************************************************************)
(* nlohmann::json values.  A value is a number, a string, an array, or     *)
(* "absent" (the result of looking up a key an object does not have).      *)
(* An operation that can throw comes with a predicate ...Ok, false exactly *)
(* when it throws.                                                         *)
(***************************************************************************)
JNum(n) == [t |-> "number", v |-> n, s |-> "", a |-> <<>>]
JStr(x) == [t |-> "string", v |-> 0, s |-> x, a |-> <<>>]
JArr(q) == [t |-> "array", v |-> 0, s |-> "", a |-> q]
JAbsent == [t |-> "absent", v |-> 0, s |-> "", a |-> <<>>]

\* basic_json::is_array
is_array(j) == j.t = "array"

\* basic_json::size: the length of an array, 1 for a number or a string
JSize(j) == IF j.t = "array" THEN Len(j.a) ELSE 1

\* basic_json::at(idx): throws unless j is an array and idx is in range
JAtOk(j, idx) == j.t = "array" /\ idx >= 0 /\ idx < Len(j.a)
JAt(j, idx) == j.a[idx + 1]

\* basic_json::get<T> / get<int> of a leaf: throws unless it is a number
GetNumOk(j) == j.t = "number"
GetNum(j) == j.v

\* basic_json::get<std::vector<T>>: throws unless an array of numbers
GetVectorOk(j) == j.t = "array" /\ \A k \in 1..Len(j.a) : GetNumOk(j.a[k])
GetVector(j) == [k \in 1..Len(j.a) |-> GetNum(j.a[k])]

\* basic_json::get<std::string>: throws unless a string
GetStringOk(j) == j.t = "string"
GetString(j) == j.s

\* object lookup at(key): throws when the key is absent
HasKey(j) == j.t # "absent"

(***************************************************************************)
(* Shape resolution, parseJson lines 198 and 212.                          *)
(* Outcome: [st |-> "ok", v |-> dims], [st |-> "throw"], or, for back() on *)
(* an empty array (undefined behaviour), any of the listed outcomes.       *)
(***************************************************************************)
Thrown == [st |-> "throw", v |-> 0]
Crashed == [st |-> "crash", v |-> 0]
Value(n) == [st |-> "ok", v |-> n]

\* values a read through a dangling or null pointer may yield
Garbage == {1, MaxDim}

\* shape.back().get<int>() and shape[2].get<int>() * shape[3].get<int>()
BackOutcomes(sh) ==
    IF sh.t # "array" THEN {IF GetNumOk(sh) THEN Value(GetNum(sh)) ELSE Thrown}
    ELSE IF Len(sh.a) = 0 THEN {Crashed} \cup {Value(g) : g \in Garbage}
    ELSE IF GetNumOk(sh.a[Len(sh.a)]) THEN {Value(GetNum(sh.a[Len(sh.a)]))}
    ELSE {Thrown}

ProductOutcomes(sh) ==
    IF GetNumOk(sh.a[3]) /\ GetNumOk(sh.a[4])
    THEN {Value(GetNum(sh.a[3]) * GetNum(sh.a[4]))}
    ELSE {Thrown}

\* a resolution that refuses every length but 2 and 4
nDimsOfStrict(sh) ==
    IF JSize(sh) = 4 THEN ProductOutcomes(sh)
    ELSE IF JSize(sh) = 2 THEN BackOutcomes(sh)
    ELSE {Thrown}

\* line 198: const int nDims = shape.size() == 4 ? ... : shape.back().get<int>()
nDimsOf(sh) ==
    IF JSize(sh) = 4 THEN ProductOutcomes(sh) ELSE BackOutcomes(sh)

\* a resolution without the 4-dimensional case
layerDimsOfLastOnly(sh) == BackOutcomes(sh)

\* line 212: const int layerDims = layerShape.size() == 4 ? ... : layerShape.back()...
layerDimsOf(sh) ==
    IF JSize(sh) = 4 THEN ProductOutcomes(sh) ELSE BackOutcomes(sh)

VARIABLES
    pc,        \* position of the operation under way
    shape,     \* the json shape value under resolution
    dims,      \* outcome of the resolution of shape
    layer,     \* the Dense / LSTMLayer object handed to a loader: its sizes
    weights,   \* the json weights block handed to a loader
    loaded,    \* what the loader handed to the layer's setters, or its throw
    parent,    \* parseJson: the json document (in_shape, and what "layers" is)
    model,     \* parseJson: the Model under construction
    l,         \* parseJson: the entry of "layers" the loop body ran on last
    nBefore,   \* parseJson: how many layers the model held before that entry
    idx,       \* parseJson: how many entries of "layers" the loop has consumed
    result,    \* parseJson: what the caller receives: "none", "null", "model"
    absentAdded, \* parseJson: addLayer has been called with an absent layer
    verdict    \* the validators: the last check's arguments and result

vars == <<pc, shape, dims, layer, weights, loaded, parent, model, l, nBefore,
          idx, result, absentAdded, verdict>>

loaderVars == <<layer, weights, loaded>>
shapeVars == <<shape, dims>>
buildVars == <<parent, model, l, nBefore, idx, result, absentAdded>>

NoEntry == [type |-> JAbsent, shape |-> JAbsent, weights |-> JAbsent,
            activation |-> JAbsent]
NoParent == [in_shape |-> JAbsent, layers |-> JAbsent]
NoModel == [in_size |-> 0, layers |-> <<>>]
NoVerdict == [check |-> "none", at |-> 0, type |-> "", dims |-> 0, ok |-> FALSE]

IdleBuild ==
    /\ parent = NoParent /\ model = NoModel /\ l = NoEntry /\ nBefore = 0
    /\ idx = 0
    /\ result = "none" /\ absentAdded = FALSE
IdleCheck == verdict = NoVerdict

NoDims == [st |-> "none", v |-> 0]
NoLayer == [in_size |-> 0, out_size |-> 0]
NoLoad == [st |-> "none", kernel |-> <<>>, recurrent |-> <<>>, bias |-> <<>>]
LoadThrown == [st |-> "throw", kernel |-> <<>>, recurrent |-> <<>>, bias |-> <<>>]

(***************************************************************************)
(* Specification SpecShape: the two shape resolutions of parseJson, each   *)
(* applied to every shape of ShapeInputs.                                  *)
(***************************************************************************)
\* arrays of integers of every length up to MaxShapeLen
IntShapes ==
    UNION {[1..n -> {JNum(x) : x \in 1..MaxShapeVal}] : n \in 0..MaxShapeLen}

\* the same with the last element replaced by a string
WithStringLast(q) == [q EXCEPT ![Len(q)] = JStr("x")]

ShapeInputs ==
    {JArr(q) : q \in IntShapes}
    \cup {JArr(WithStringLast(q)) : q \in {r \in IntShapes : Len(r) \in {2, 4}}}
    \cup {JNum(3), JStr("x"), JAbsent}

ReturnedNull == [st |-> "null", v |-> 0]

\* lines 192-198 as far as in_shape goes: at("in_shape"), is_array, nDims
InShapeOutcomes(sh) ==
    IF ~HasKey(sh) THEN {Thrown}
    ELSE IF ~is_array(sh) THEN {ReturnedNull}
    ELSE nDimsOf(sh)

\* lines 209-212: l.at("shape"), layerDims
LayerShapeOutcomes(sh) ==
    IF ~HasKey(sh) THEN {Thrown} ELSE layerDimsOf(sh)

IdleLoader == layer = NoLayer /\ weights = JAbsent /\ loaded = NoLoad

InitShape ==
    /\ pc = "shape"
    /\ shape \in ShapeInputs
    /\ dims = NoDims
    /\ IdleLoader /\ IdleBuild /\ IdleCheck

ResolveInShape ==
    /\ pc = "shape"
    /\ dims' \in InShapeOutcomes(shape)
    /\ pc' = "nDims"
    /\ UNCHANGED <<shape, loaderVars, buildVars, verdict>>

ResolveLayerShape ==
    /\ pc = "shape"
    /\ dims' \in LayerShapeOutcomes(shape)
    /\ pc' = "layerDims"
    /\ UNCHANGED <<shape, loaderVars, buildVars, verdict>>

NextShape == ResolveInShape \/ ResolveLayerShape

SpecShape == InitShape /\ [][NextShape]_vars

\* shape is an array of n integers
IsIntShape(sh, n) ==
    is_array(sh) /\ Len(sh.a) = n /\ \A k \in 1..n : GetNumOk(sh.a[k])

Resolved == pc \in {"nDims", "layerDims"}

\* C4: a 2-element shape [seq, f] resolves to f and a 4-element shape
\* [b, t, c, f] resolves to c*f, for the top-level in_shape and for a layer's
\* shape alike.
C4_ShapeResolution ==
    Resolved =>
        /\ IsIntShape(shape, 2) => dims = Value(shape.a[2].v)
        /\ IsIntShape(shape, 4) => dims = Value(shape.a[3].v * shape.a[4].v)

\* a 4-element layer shape with c # f, c*f # f has been resolved, and so has
\* a 2-element top-level shape whose two elements differ
C4_Witness ==
    \/ /\ pc = "layerDims" /\ IsIntShape(shape, 4)
       /\ shape.a[3].v = 2 /\ shape.a[4].v = 2 /\ shape.a[2].v = 1
       /\ dims = Value(4)
    \/ /\ pc = "nDims" /\ IsIntShape(shape, 2)
       /\ shape.a[1].v = 1 /\ shape.a[2].v = 2
       /\ dims = Value(2)

DenseCopyOk(d, layerWeights) ==
    \A i \in 0..(JSize(layerWeights) - 1) :
        /\ JAtOk(layerWeights, i)
        /\ \A j \in 0..(JSize(JAt(layerWeights, i)) - 1) :
              /\ JAtOk(JAt(layerWeights, i), j)
              /\ GetNumOk(JAt(JAt(layerWeights, i), j))
              /\ j < d.out_size
              /\ i < d.in_size

\* a copy that forgets the transposition: denseWeights.at(i).at(j) = lw.at(j)
DenseKernelUntransposed(d, layerWeights) ==
    [o \in 1..d.out_size |-> [i \in 1..d.in_size |->
        IF o <= JSize(layerWeights) /\ i <= JSize(JAt(layerWeights, o - 1))
        THEN GetNum(JAt(JAt(layerWeights, o - 1), i - 1))
        ELSE 0]]

\* lines 26-36: denseWeights is out_size rows of in_size zeros, then
\* denseWeights.at(j).at(i) = lw.at(j).get<T>() for every element there is
DenseKernel(d, layerWeights) ==
    [o \in 1..d.out_size |-> [i \in 1..d.in_size |->
        IF i <= JSize(layerWeights) /\ o <= JSize(JAt(layerWeights, i - 1))
        THEN GetNum(JAt(JAt(layerWeights, i - 1), o - 1))
        ELSE 0]]

\* lines 23-43: what loadDense hands to dense.setWeights and dense.setBias
loadDense(d, w) ==
    IF /\ JAtOk(w, 0)
       /\ DenseCopyOk(d, JAt(w, 0))
       /\ JAtOk(w, 1)
       /\ GetVectorOk(JAt(w, 1))
    THEN [st |-> "ok", kernel |-> DenseKernel(d, JAt(w, 0)),
          recurrent |-> <<>>, bias |-> GetVector(JAt(w, 1))]
    ELSE LoadThrown

\* lines 47-52
createDense(in_size, out_size, w) ==
    loadDense([in_size |-> in_size, out_size |-> out_size], w)

(***************************************************************************)
(* Specification SpecDense: createDense on every weights block of          *)
(* DenseWeightInputs, for every pair of sizes up to MaxSize.               *)
(***************************************************************************)
\* element j of row i of a source matrix: all distinct, none zero
Cell(i, j) == JNum(10 * i + j)

\* the matrix of n rows whose row i has f[i] elements
Ragged(n, f) == JArr([i \in 1..n |-> JArr([j \in 1..f[i] |-> Cell(i, j)])])

RaggedKernels ==
    UNION {{Ragged(n, f) : f \in [1..n -> 0..MaxLen]} : n \in 0..MaxLen}

\* the last leaf of a matrix replaced by a string
WithBadLeaf(k) ==
    LET n == Len(k.a)
        m == Len(k.a[n].a)
    IN JArr([k.a EXCEPT ![n] = JArr([k.a[n].a EXCEPT ![m] = JStr("x")])])

KernelInputs ==
    RaggedKernels
    \cup {WithBadLeaf(k) : k \in {r \in RaggedKernels :
                                     Len(r.a) > 0 /\ Len(r.a[Len(r.a)].a) > 0}}
    \cup {JNum(1), JArr(<<JNum(1)>>)}

BiasVector(n) == JArr([k \in 1..n |-> JNum(100 + k)])

BiasInputs ==
    {BiasVector(n) : n \in 0..MaxLen} \cup {JArr(<<JStr("x")>>), JNum(1)}

DenseWeightInputs ==
    {JArr(<<k, b>>) : k \in KernelInputs, b \in BiasInputs}
    \cup {JArr(<<k>>) : k \in {Ragged(0, <<>>), Ragged(1, <<1>>)}}
    \cup {JArr(<<>>), JNum(1)}

Sizes == 1..MaxSize

IdleShape == shape = JAbsent /\ dims = NoDims

InitDense ==
    /\ pc = "dense"
    /\ layer \in [in_size : Sizes, out_size : Sizes]
    /\ weights \in DenseWeightInputs
    /\ loaded = NoLoad
    /\ IdleShape /\ IdleBuild /\ IdleCheck

CreateDense ==
    /\ pc = "dense"
    /\ loaded' = createDense(layer.in_size, layer.out_size, weights)
    /\ pc' = "dense_done"
    /\ UNCHANGED <<shapeVars, layer, weights, buildVars, verdict>>

NextDense == CreateDense

SpecDense == InitDense /\ [][NextDense]_vars

\* m is an array of exactly rows arrays of exactly cols numbers each
IsMatrix(m, rows, cols) ==
    /\ is_array(m) /\ Len(m.a) = rows
    /\ \A i \in 1..rows : GetVectorOk(m.a[i]) /\ Len(m.a[i].a) = cols

\* C1: for a weights block whose first element is an in_size-long array of
\* out_size-long rows, the kernel handed to the layer is the transpose of the
\* source, kernel[o][i] = source[i][o], and the bias handed to the layer is
\* the block's second element, element for element.
C1_DenseTranspose ==
    (/\ pc = "dense_done" /\ loaded.st = "ok"
     /\ IsMatrix(weights.a[1], layer.in_size, layer.out_size))
    => /\ Len(loaded.kernel) = layer.out_size
       /\ \A o \in 1..layer.out_size :
             /\ Len(loaded.kernel[o]) = layer.in_size
             /\ \A i \in 1..layer.in_size :
                   loaded.kernel[o][i] = weights.a[1].a[i].a[o].v
       /\ Len(loaded.bias) = Len(weights.a[2].a)
       /\ \A k \in 1..Len(loaded.bias) : loaded.bias[k] = weights.a[2].a[k].v

\* a 2x2 source has been loaded: its off-diagonal elements tell a transpose
\* from a plain copy
C1_Witness ==
    /\ pc = "dense_done" /\ loaded.st = "ok"
    /\ layer.in_size = 2 /\ layer.out_size = 2
    /\ IsMatrix(weights.a[1], 2, 2)
    /\ loaded.kernel[1][2] = 21 /\ loaded.kernel[2][1] = 12
    /\ loaded.bias = <<101, 102>>

\* the first element of a dense weights block is an array of arrays but its
\* outer length or one of its rows' lengths is not the implied one
DenseKernelMismatch ==
    /\ is_array(weights) /\ Len(weights.a) >= 1 /\ is_array(weights.a[1])
    /\ \A i \in 1..Len(weights.a[1].a) : is_array(weights.a[1].a[i])
    /\ \/ Len(weights.a[1].a) # layer.in_size
       \/ \E i \in 1..Len(weights.a[1].a) :
             Len(weights.a[1].a[i].a) # layer.out_size

\* the second element of the weights block is a bias of out_size numbers
BiasFits ==
    /\ Len(weights.a) >= 2 /\ GetVectorOk(weights.a[2])
    /\ Len(weights.a[2].a) = layer.out_size

\* C3 as stated: a kernel whose outer length or any row length differs from
\* the size implied by in_size / out_size makes the load (so the build) fail
\* (stated for blocks whose bias is as it should be, so that the kernel alone
\* decides).
C3_MismatchFails ==
    (pc = "dense_done" /\ DenseKernelMismatch /\ BiasFits) => loaded.st = "throw"

(***************************************************************************)
(* loadLSTM / createLSTM, lines 77-122.  The two copy loops (86-91 and     *)
(* 101-106) are the same loop over a rows x cols zero matrix.              *)
(***************************************************************************)
\* the gates of an LSTM: w.resize(4 * lstm.out_size, (T)0)
GateCols(lstm) == 4 * lstm.out_size

\* lines 81 and 96: the row counts of the two matrices
kernelRows(lstm) == lstm.in_size

recurrentRowsInSize(lstm) == lstm.in_size

recurrentRows(lstm) == lstm.out_size

\* every access of a copy loop succeeds: element j of row i goes to
\* m.at(i).at(j), which throws unless i < rows and j < cols
LSTMCopyOk(rows, cols, layerWeights) ==
    \A i \in 0..(JSize(layerWeights) - 1) :
        /\ JAtOk(layerWeights, i)
        /\ \A j \in 0..(JSize(JAt(layerWeights, i)) - 1) :
              /\ JAtOk(JAt(layerWeights, i), j)
              /\ GetNumOk(JAt(JAt(layerWeights, i), j))
              /\ i < rows
              /\ j < cols

\* rows x cols zeros, then m.at(i).at(j) = lw.at(j).get<T>()
LSTMMatrix(rows, cols, layerWeights) ==
    [i \in 1..rows |-> [j \in 1..cols |->
        IF i <= JSize(layerWeights) /\ j <= JSize(JAt(layerWeights, i - 1))
        THEN GetNum(JAt(JAt(layerWeights, i - 1), j - 1))
        ELSE 0]]

\* lines 78-113: what loadLSTM hands to setWVals, setUVals and setBVals
loadLSTM(lstm, w) ==
    IF /\ JAtOk(w, 0)
       /\ LSTMCopyOk(kernelRows(lstm), GateCols(lstm), JAt(w, 0))
       /\ JAtOk(w, 1)
       /\ LSTMCopyOk(recurrentRows(lstm), GateCols(lstm), JAt(w, 1))
       /\ JAtOk(w, 2)
       /\ GetVectorOk(JAt(w, 2))
    THEN [st |-> "ok",
          kernel |-> LSTMMatrix(kernelRows(lstm), GateCols(lstm), JAt(w, 0)),
          recurrent |-> LSTMMatrix(recurrentRows(lstm), GateCols(lstm), JAt(w, 1)),
          bias |-> GetVector(JAt(w, 2))]
    ELSE LoadThrown

\* lines 117-122
createLSTM(in_size, out_size, w) ==
    loadLSTM([in_size |-> in_size, out_size |-> out_size], w)

(***************************************************************************)
(* Specification SpecLSTM: createLSTM on kernels one row or column short   *)
(* of, equal to and beyond the sizes of the layer.                         *)
(***************************************************************************)
\* the rows x cols matrix whose element (i, j) is base + 100 * i + j
Rect(rows, cols, base) ==
    JArr([i \in 1..rows |-> JArr([j \in 1..cols |-> JNum(base + 100 * i + j)])])

Around(n) == {n - 1, n, n + 1}

LSTMWeightInputs(lstm) ==
    {JArr(<<Rect(r1, c1, 0), Rect(r2, c2, 5000), BiasVector(b)>>) :
        r1 \in Around(lstm.in_size), c1 \in Around(GateCols(lstm)),
        r2 \in Around(lstm.out_size), c2 \in Around(GateCols(lstm)),
        b \in {GateCols(lstm) - 1, GateCols(lstm)}}
    \cup {JArr(<<Rect(lstm.in_size, GateCols(lstm), 0), Rect(lstm.out_size, GateCols(lstm), 5000)>>),
          JArr(<<Rect(lstm.in_size, GateCols(lstm), 0), JNum(1), BiasVector(GateCols(lstm))>>),
          JArr(<<Rect(lstm.in_size, GateCols(lstm), 0),
                 WithBadLeaf(Rect(lstm.out_size, GateCols(lstm), 5000)),
                 BiasVector(GateCols(lstm))>>),
          JArr(<<>>)}

InitLSTM ==
    /\ pc = "lstm"
    /\ layer \in [in_size : Sizes, out_size : Sizes]
    /\ weights \in LSTMWeightInputs(layer)
    /\ loaded = NoLoad
    /\ IdleShape /\ IdleBuild /\ IdleCheck

CreateLSTM ==
    /\ pc = "lstm"
    /\ loaded' = createLSTM(layer.in_size, layer.out_size, weights)
    /\ pc' = "lstm_done"
    /\ UNCHANGED <<shapeVars, layer, weights, buildVars, verdict>>

NextLSTM == CreateLSTM

SpecLSTM == InitLSTM /\ [][NextLSTM]_vars

\* matrix m has rows rows of cols columns and agrees with the json matrix src
\* at every index pair src has
CopiedUntransposed(m, rows, cols, src) ==
    /\ Len(m) = rows
    /\ \A i \in 1..rows : Len(m[i]) = cols
    /\ \A i \in 1..Len(src.a) : \A j \in 1..Len(src.a[i].a) :
          i <= rows /\ j <= cols /\ m[i][j] = src.a[i].a[j].v

\* C2: both LSTM kernels are copied without transposition: the input kernel
\* has in_size rows, the recurrent kernel out_size rows, both 4*out_size
\* columns, and kernel[i][j] = source[i][j] at every index pair of the source.
C2_LSTMPlainCopy ==
    (pc = "lstm_done" /\ loaded.st = "ok")
    => /\ CopiedUntransposed(loaded.kernel, layer.in_size,
                             4 * layer.out_size, weights.a[1])
       /\ CopiedUntransposed(loaded.recurrent, layer.out_size,
                             4 * layer.out_size, weights.a[2])

\* an LSTM with in_size 2 and out_size 1 has been loaded from kernels of
\* exactly 2 x 4 and 1 x 4
C2_Witness ==
    /\ pc = "lstm_done" /\ loaded.st = "ok"
    /\ layer.in_size = 2 /\ layer.out_size = 1
    /\ IsMatrix(weights.a[1], 2, 4) /\ IsMatrix(weights.a[2], 1, 4)
    /\ loaded.kernel[2][3] = 203 /\ loaded.recurrent[1][4] = 5104

(***************************************************************************)
(* The layer classes and the Model (Layer.h, dense.h, lstm.h, activation.h *)
(* and Model.h): a layer is its kind, its two sizes and, for an            *)
(* activation, the name it reports.                                        *)
(***************************************************************************)
\* Dense<T>(in_size, out_size)
Dense(in_size, out_size) ==
    [kind |-> "dense", in_size |-> in_size, out_size |-> out_size, name |-> ""]

\* LSTMLayer<T>(in_size, out_size)
LSTMLayer(in_size, out_size) ==
    [kind |-> "lstm", in_size |-> in_size, out_size |-> out_size, name |-> ""]

\* TanhActivation<T>(size), ReLuActivation<T>(size), ...: an activation maps
\* size inputs to size outputs and reports its own name
Activation(name, size) ==
    [kind |-> "activation", in_size |-> size, out_size |-> size, name |-> name]

\* Activation::getName
getName(actLayer) == actLayer.name

\* an empty std::unique_ptr
Absent == [kind |-> "absent", in_size |-> 0, out_size |-> 0, name |-> ""]

\* Model<T>(nDims)
Model(nDims) == [in_size |-> nDims, layers |-> <<>>]

\* Model::getNextInSize: the model's input size, then the output size of the
\* layer appended last
getNextInSize(m) ==
    IF m.layers = <<>> THEN m.in_size ELSE m.layers[Len(m.layers)].out_size

\* Model::addLayer
addLayer(m, newLayer) == [m EXCEPT !.layers = Append(@, newLayer)]

(***************************************************************************)
(* createActivation, lines 147-167.                                        *)
(***************************************************************************)
createActivation(activationType, size) ==
    IF activationType = "tanh" THEN Activation("tanh", size)
    ELSE IF activationType = "relu" THEN Activation("relu", size)
    ELSE IF activationType = "sigmoid" THEN Activation("sigmoid", size)
    ELSE IF activationType = "softmax" THEN Activation("softmax", size)
    ELSE IF activationType = "elu" THEN Activation("elu", size)
    ELSE Absent

(***************************************************************************)
(* The validators, lines 55-71, 125-141 and 170-186.                       *)
(***************************************************************************)
\* a check that accepts "dense" alone
checkDenseStrict(dense, type, layerDims) ==
    type = "dense" /\ layerDims = dense.out_size

checkDense(dense, type, layerDims) ==
    IF type # "dense" /\ type # "time-distributed-dense" THEN FALSE
    ELSE IF layerDims # dense.out_size THEN FALSE
    ELSE TRUE

checkLSTM(lstm, type, layerDims) ==
    IF type # "lstm" THEN FALSE
    ELSE IF layerDims # lstm.out_size THEN FALSE
    ELSE TRUE

checkActivation(actLayer, activationType, size) ==
    IF size # actLayer.out_size THEN FALSE
    ELSE IF activationType # getName(actLayer) THEN FALSE
    ELSE TRUE

(***************************************************************************)
(* parseJson, lines 189-252.  An outcome of a step is the model it leaves  *)
(* and how it ended: "ok", "throw" (an exception left parseJson) or        *)
(* "crash" (undefined behaviour ended the process).                        *)
(***************************************************************************)
Out(st, m, absent) == [st |-> st, model |-> m, absent |-> absent]

\* _model->addLayer(layer.release()).  Model::addLayer reads the layer it is
\* given, so an absent layer is a null dereference: the process crashes, or
\* the null is appended and any size is read through it.
AddLayerOutcomes(m, newLayer) ==
    IF newLayer.kind = "absent"
    THEN {Out("crash", m, TRUE)}
         \cup {Out("ok", addLayer(m, [newLayer EXCEPT !.in_size = g, !.out_size = g]), TRUE) :
                  g \in Garbage}
    ELSE {Out("ok", addLayer(m, newLayer), FALSE)}

\* lines 218-230: the lambda add_activation, layerDims captured by value
add_activation(m, entry, layerDims) ==
    IF ~HasKey(entry.activation) THEN {Out("ok", m, FALSE)}
    ELSE IF ~GetStringOk(entry.activation) THEN {Out("throw", m, FALSE)}
    ELSE IF GetString(entry.activation) = "" THEN {Out("ok", m, FALSE)}
    ELSE AddLayerOutcomes(m, createActivation(GetString(entry.activation), layerDims))

\* lines 232-248: the branch on type, once layerDims and weights are read
Dispatch(m, entry, layerDims) ==
    LET type == GetString(entry.type) IN
    IF type = "dense" \/ type = "time-distributed-dense"
    THEN IF createDense(getNextInSize(m), layerDims, entry.weights).st = "ok"
         THEN add_activation(addLayer(m, Dense(getNextInSize(m), layerDims)),
                             entry, layerDims)
         ELSE {Out("throw", m, FALSE)}
    ELSE IF type = "lstm"
    THEN IF createLSTM(getNextInSize(m), layerDims, entry.weights).st = "ok"
         THEN {Out("ok", addLayer(m, LSTMLayer(getNextInSize(m), layerDims)), FALSE)}
         ELSE {Out("throw", m, FALSE)}
    ELSE IF type = "activation"
    THEN add_activation(m, entry, layerDims)
    ELSE {Out("ok", m, FALSE)}

\* line 216: const auto weights = l.at("weights"), for an entry of any type
WeightsRead(entry) == HasKey(entry.weights)

\* lines 206-248: one pass of the loop body over entry
Body(m, entry) ==
    IF ~HasKey(entry.type) \/ ~GetStringOk(entry.type)
    THEN {Out("throw", m, FALSE)}
    ELSE UNION {
        IF d.st = "throw" THEN {Out("throw", m, FALSE)}
        ELSE IF d.st = "crash" THEN {Out("crash", m, FALSE)}
        ELSE IF ~WeightsRead(entry) THEN {Out("throw", m, FALSE)}
        ELSE Dispatch(m, entry, d.v)
        : d \in LayerShapeOutcomes(entry.shape)}

\* what the caller holds once an exception has left parseJson: the model is
\* destroyed on the way out
ResultOnThrowPartial == "model"

ResultOnThrow == "none"

(***************************************************************************)
(* Specification SpecBuild: parseJson on documents of up to MaxLayers      *)
(* entries.  The entries of "layers" are drawn one per pass of the loop.   *)
(***************************************************************************)
Shape2(f) == JArr(<<JNum(3), JNum(f)>>)
Shape4(c, f) == JArr(<<JNum(3), JNum(1), JNum(c), JNum(f)>>)
Shape3(f) == JArr(<<JNum(1), JNum(1), JNum(f)>>)

GoodShapes == {Shape2(f) : f \in 1..MaxDim} \cup {Shape4(MaxDim, 1)}

\* the dimensionality a good shape resolves to
DimOf(sh) == (CHOOSE d \in layerDimsOf(sh) : TRUE).v

ParentInputs ==
    [in_shape : GoodShapes \cup {JAbsent, JNum(3), Shape3(MaxDim),
                                 JArr(<<JNum(3), JStr("x")>>)},
     layers : {JArr(<<>>), JAbsent, JNum(1)}]

Entry(type, sh, w, a) ==
    [type |-> type, shape |-> sh, weights |-> w, activation |-> a]

\* a dense weights block with a rows x cols kernel, and a bias of n
DenseBlock(rows, cols, n) ==
    JArr(<<Ragged(rows, [i \in 1..rows |-> cols]), BiasVector(n)>>)

Pos(n) == IF n > 0 THEN n ELSE 0

\* weights for a dense entry: fitting, one row short, absent
DenseMenu(in, out) ==
    {DenseBlock(in, out, out), DenseBlock(Pos(in - 1), out, out), JAbsent}

LSTMBlock(rows, out) ==
    JArr(<<Rect(rows, 4 * out, 0), Rect(out, 4 * out, 5000), BiasVector(4 * out)>>)

\* weights for an lstm entry: fitting, one row beyond
LSTMMenu(in, out) == {LSTMBlock(in, out), LSTMBlock(in + 1, out)}

ActFields == {JAbsent, JStr(""), JStr("tanh"), JStr("bogus")}

FlatShapes == {Shape2(f) : f \in 1..MaxDim}

\* the entries tried after a model m
Entries(m) ==
    UNION {{Entry(JStr("dense"), sh, w, a) :
               w \in DenseMenu(getNextInSize(m), DimOf(sh)),
               a \in ActFields} : sh \in FlatShapes}
    \cup {Entry(JStr("time-distributed-dense"), sh,
                DenseBlock(getNextInSize(m), DimOf(sh), DimOf(sh)), JStr("tanh")) :
               sh \in GoodShapes}
    \cup UNION {{Entry(JStr("lstm"), sh, w, JAbsent) :
               w \in LSTMMenu(getNextInSize(m), DimOf(sh))} : sh \in FlatShapes}
    \cup {Entry(JStr("activation"), sh, w, a) :
               sh \in FlatShapes, w \in {JAbsent, JArr(<<>>)}, a \in ActFields}
    \cup {Entry(JStr("conv"), Shape2(1), JArr(<<>>), JStr("tanh")),
          Entry(JStr("activation"), Shape3(MaxDim), JArr(<<>>), JStr("tanh")),
          Entry(JStr("activation"), Shape4(MaxDim, 1), JArr(<<>>), JStr("tanh")),
          Entry(JAbsent, Shape2(1), JArr(<<>>), JAbsent),
          Entry(JStr("activation"), JAbsent, JArr(<<>>), JStr("tanh")),
          Entry(JStr("activation"), JArr(<<>>), JArr(<<>>), JStr("tanh")),
          Entry(JStr("activation"), Shape2(1), JArr(<<>>), JNum(1)),
          Entry(JStr("dense"), Shape2(1), JArr(<<>>), JAbsent),
          Entry(JStr("dense"), Shape2(1),
                JArr(<<WithBadLeaf(Ragged(getNextInSize(m),
                                          [i \in 1..getNextInSize(m) |-> 1])),
                       BiasVector(1)>>), JAbsent),
          Entry(JStr("activation"), JArr(<<JNum(3), JStr("x")>>), JArr(<<>>),
                JStr("tanh"))}

IdleAllButBuild == IdleShape /\ IdleLoader /\ IdleCheck

InitBuild ==
    /\ pc = "start"
    /\ parent \in ParentInputs
    /\ model = NoModel /\ l = NoEntry /\ nBefore = 0 /\ idx = 0
    /\ result = "none" /\ absentAdded = FALSE
    /\ IdleAllButBuild

PcAfter(st) ==
    IF st = "ok" THEN "loop" ELSE IF st = "throw" THEN "thrown" ELSE "crashed"

\* lines 192-202: at("in_shape"), at("layers"), the is_array test, nDims and
\* the empty Model
ParseHeader ==
    /\ pc = "start"
    /\ IF ~HasKey(parent.in_shape) \/ ~HasKey(parent.layers)
       THEN pc' = "thrown" /\ result' = ResultOnThrow /\ model' = model
       ELSE IF ~is_array(parent.in_shape) \/ ~is_array(parent.layers)
       THEN pc' = "returned" /\ result' = "null" /\ model' = model
       ELSE \E d \in nDimsOf(parent.in_shape) :
               /\ pc' = PcAfter(d.st)
               /\ result' = IF d.st = "throw" THEN ResultOnThrow ELSE result
               /\ model' = IF d.st = "ok" THEN Model(d.v) ELSE model
    /\ UNCHANGED <<parent, l, nBefore, idx, absentAdded, shapeVars, loaderVars,
                   verdict>>

\* lines 204-249: one pass of the loop, on the next entry of "layers"
Iterate ==
    /\ pc = "loop"
    /\ idx < MaxLayers
    /\ \E entry \in Entries(model) : \E o \in Body(model, entry) :
          /\ l' = entry
          /\ nBefore' = Len(model.layers)
          /\ idx' = idx + 1
          /\ model' = o.model
          /\ absentAdded' = (absentAdded \/ o.absent)
          /\ pc' = PcAfter(o.st)
          /\ result' = IF o.st = "throw" THEN ResultOnThrow ELSE result
    /\ UNCHANGED <<parent, shapeVars, loaderVars, verdict>>

\* line 251: the loop has run out of entries
Return ==
    /\ pc = "loop"
    /\ pc' = "returned"
    /\ result' = "model"
    /\ UNCHANGED <<parent, model, l, nBefore, idx, absentAdded, shapeVars,
                   loaderVars, verdict>>

NextBuild == ParseHeader \/ Iterate \/ Return

SpecBuild == InitBuild /\ [][NextBuild]_vars

\* newLayer is a constructed layer object, not an empty pointer
Constructed(newLayer) == newLayer.kind # "absent"

\* C6 as stated: after every append, and in every model returned, the
\* output size of layer i is the input size of layer i+1, for every two
\* adjacent layer objects of the model.
C6_AdjacentSizesAgree ==
    \A i \in 1..(Len(model.layers) - 1) :
        (Constructed(model.layers[i]) /\ Constructed(model.layers[i + 1]))
        => model.layers[i].out_size = model.layers[i + 1].in_size

\* the loop body has run on l
BodyRan == idx > 0 /\ pc \in {"loop", "thrown", "crashed", "returned"}

\* C8 as stated: an entry of type "activation" whose weights field is absent
\* or empty raises no error and appends exactly the named activation, sized
\* to the entry's resolved shape.
C8_ActivationWithoutWeights ==
    (/\ BodyRan
     /\ l.type = JStr("activation")
     /\ l.weights \in {JAbsent, JArr(<<>>)}
     /\ l.shape \in GoodShapes
     /\ l.activation = JStr("tanh"))
    => /\ pc # "thrown"
       /\ Len(model.layers) = nBefore + 1
       /\ model.layers[Len(model.layers)] = Activation("tanh", DimOf(l.shape))

\* the entry the body ran on last lacks one of the keys the body reads
EntryMissesKey ==
    BodyRan /\ (~HasKey(l.type) \/ ~HasKey(l.shape) \/ ~HasKey(l.weights))

\* the entry the body ran on last is a dense entry whose weights block has no
\* element 0 or holds a leaf that is no number
EntryHasBadWeights ==
    /\ BodyRan /\ l.type = JStr("dense") /\ l.shape \in GoodShapes
    /\ is_array(l.weights)
    /\ \/ Len(l.weights.a) = 0
       \/ ~IsMatrix(l.weights.a[1], Len(l.weights.a[1].a), DimOf(l.shape))

\* C9: a build is all-or-nothing.  The caller receives a model only from the
\* return at the end of the loop, of a document whose in_shape and layers are
\* arrays; once an exception has left parseJson (a missing key, a shape
\* element or a weight that does not convert, a weight index miss) the
\* caller holds no model, whatever was appended before.
C9_AllOrNothing ==
    /\ result = "model" =>
          pc = "returned" /\ is_array(parent.in_shape) /\ is_array(parent.layers)
    /\ pc \in {"thrown", "crashed"} => result = "none"
    /\ (EntryMissesKey \/ EntryHasBadWeights) => (pc = "thrown" /\ result = "none")

\* an entry has failed after the model had received layers from the entry
\* before it
C9_Witness ==
    /\ pc = "thrown" /\ result = "none"
    /\ idx = 2 /\ Len(model.layers) = 2 /\ EntryHasBadWeights

\* C10 as stated: addLayer is never called with an absent layer.
C10_NoAbsentLayerAdded == absentAdded = FALSE

(***************************************************************************)
(* Specification SpecCheck: a layer entry is built by the loop body, then  *)
(* a layer it appended is handed to its check with a tag and a             *)
(* dimensionality.                                                         *)
(***************************************************************************)
ActivationNames == {"tanh", "relu", "sigmoid", "softmax", "elu"}

CheckEntries(m) ==
    {Entry(JStr(t), sh, DenseBlock(getNextInSize(m), DimOf(sh), DimOf(sh)), a) :
        t \in {"dense", "time-distributed-dense"}, sh \in GoodShapes,
        a \in {JAbsent} \cup {JStr(n) : n \in ActivationNames}}
    \cup {Entry(JStr("lstm"), sh, LSTMBlock(getNextInSize(m), DimOf(sh)), JAbsent) :
        sh \in GoodShapes}
    \cup {Entry(JStr("activation"), sh, JArr(<<>>), JStr(n)) :
        sh \in GoodShapes, n \in ActivationNames}

Tags ==
    {"dense", "time-distributed-dense", "lstm", "activation", "conv"}
    \cup ActivationNames

InitCheck ==
    /\ pc = "spec"
    /\ \E n \in 1..MaxDim :
          /\ model = Model(n)
          /\ l \in CheckEntries(Model(n))
    /\ parent = NoParent /\ nBefore = 0 /\ idx = 0
    /\ result = "none" /\ absentAdded = FALSE
    /\ verdict = NoVerdict
    /\ IdleShape /\ IdleLoader

\* lines 206-248: the loop body on the entry
BuildEntry ==
    /\ pc = "spec"
    /\ \E o \in Body(model, l) :
          /\ o.st = "ok"
          /\ model' = o.model
    /\ pc' = "built"
    /\ UNCHANGED <<parent, l, nBefore, idx, result, absentAdded, verdict,
                   shapeVars, loaderVars>>

Verdict(check, at, type, n, ok) ==
    [check |-> check, at |-> at, type |-> type, dims |-> n, ok |-> ok]

CheckDense ==
    /\ pc = "built"
    /\ \E k \in 1..Len(model.layers), type \in Tags, n \in 1..(MaxDim + 1) :
          /\ model.layers[k].kind = "dense"
          /\ verdict' = Verdict("dense", k, type, n,
                                checkDense(model.layers[k], type, n))
    /\ pc' = "checked"
    /\ UNCHANGED <<buildVars, shapeVars, loaderVars>>

CheckLSTM ==
    /\ pc = "built"
    /\ \E k \in 1..Len(model.layers), type \in Tags, n \in 1..(MaxDim + 1) :
          /\ model.layers[k].kind = "lstm"
          /\ verdict' = Verdict("lstm", k, type, n,
                                checkLSTM(model.layers[k], type, n))
    /\ pc' = "checked"
    /\ UNCHANGED <<buildVars, shapeVars, loaderVars>>

CheckActivation ==
    /\ pc = "built"
    /\ \E k \in 1..Len(model.layers), type \in Tags, n \in 1..(MaxDim + 1) :
          /\ model.layers[k].kind = "activation"
          /\ verdict' = Verdict("activation", k, type, n,
                                checkActivation(model.layers[k], type, n))
    /\ pc' = "checked"
    /\ UNCHANGED <<buildVars, shapeVars, loaderVars>>

NextCheck == BuildEntry \/ CheckDense \/ CheckLSTM \/ CheckActivation

SpecCheck == InitCheck /\ [][NextCheck]_vars

\* the tag and the dimensionality of the spec the checked layer was built from
SpecTag ==
    IF verdict.check = "activation" THEN GetString(l.activation)
    ELSE GetString(l.type)

SpecDims == DimOf(l.shape)

\* the tags a check accepts for a layer built from the spec
AcceptedTags ==
    IF verdict.check = "dense" THEN {"dense", "time-distributed-dense"}
    ELSE {SpecTag}

\* C7 as stated: the matching check returns true for the spec's own tag and
\* dimensionality, and false for any other tag or any other dimensionality.
C7_RoundTripStrict ==
    pc = "checked" =>
        /\ (verdict.type = SpecTag /\ verdict.dims = SpecDims) => verdict.ok
        /\ (verdict.type # SpecTag \/ verdict.dims # SpecDims) => ~verdict.ok

\* C7 amended: the matching check returns true for the spec's own tag and
\* dimensionality, false for any other dimensionality, and false for any tag
\* the check does not accept: checkLSTM accepts "lstm" alone, checkActivation
\* the activation's name alone, and checkDense both "dense" and
\* "time-distributed-dense", whichever of the two the spec carried.
C7_RoundTrip ==
    pc = "checked" =>
        /\ (verdict.type = SpecTag /\ verdict.dims = SpecDims) => verdict.ok
        /\ verdict.dims # SpecDims => ~verdict.ok
        /\ verdict.type \notin AcceptedTags => ~verdict.ok
        /\ verdict.ok <=> (verdict.type \in AcceptedTags /\ verdict.dims = SpecDims)

\* a dense layer built from a "time-distributed-dense" spec has passed its
\* check under the spec's own tag
C7_Witness ==
    /\ pc = "checked" /\ verdict.check = "dense" /\ verdict.ok
    /\ l.type = JStr("time-distributed-dense")
    /\ verdict.type = "time-distributed-dense"
    /\ verdict.dims = SpecDims

====
